---- MODULE Spec2Model ----
(***************************************************************************)
(* memelink-cli: the Memegen text codec and NormalizeQuotes (package       *)
(* encoding), the retrying and the logging HTTP transport and the checks   *)
(* of image and JSON responses (package api), Config's Get, Set and Unset  *)
(* (package config), TemplatesCmd.loadTemplates with its cache (package    *)
(* cmd), and the template picker's Update (package tui).                   *)
(*                                                                         *)
(* A text is a sequence of characters; a character is a one-character      *)
(* string, except the four that TLA+ strings cannot spell portably, which  *)
(* are named: LF (newline), BSL (backslash), NUL (byte 0x00) and SOH       *)
(* (byte 0x01).                                                            *)
(***************************************************************************)
EXTENDS Integers, Sequences, FiniteSets, TLC

VARIABLES
    \* ---- codec ----
    text,        \* the input string handed to Encode
    encoded,     \* Encode(text), once computed
    decoded,     \* Decode(encoded), once computed
    cpc,         \* codec position: "input", "encoded", "decoded", "textdecoded"
    \* ---- retryTransport ----
    maxRetries,  \* t.maxRetries
    baseDelay,   \* t.baseDelay, in milliseconds
    req,         \* the request: [hasBody, hasGetBody]
    body,        \* req.Body: the bytes not yet read from it
    ctxDone,     \* req.Context().Done() is closed
    ctxErr,      \* req.Context().Err()
    cancelledAt, \* history: where RoundTrip was when the context became done
    pc,          \* position in RoundTrip
    attempt,     \* the loop variable
    resp,        \* the local resp: NilResp or [attempt, status]
    err,         \* the local err: NoErr or the base transport's error
    retryable,   \* shouldRetry(resp.StatusCode), as last computed
    allRetryable,\* history: every response received so far had a retryable status
    calls,       \* number of calls of t.base.RoundTrip
    sent,        \* per call of t.base.RoundTrip, the body bytes it read
    closed,      \* per response received, whether RoundTrip closed its body
    waits,       \* the delays of the backoff waits started, in order
    ret,         \* what RoundTrip returned: [resp, err], err a chain of wrapped errors
    \* ---- loggingTransport ----
    verbose,     \* opts.Verbose: the decorator wraps the retry layer
    lpc,         \* position in loggingTransport.RoundTrip; "off" without it
    logs,        \* the slog.Debug records written, in order
    lret,        \* what loggingTransport.RoundTrip returned: [resp, err]
    \* ---- replacement passes taken in any order ----
    fn,          \* the function whose passes are applied
    otext,       \* its input
    cur,         \* the text after the passes applied so far
    left,        \* the passes not yet applied
    \* ---- checkImageResponse and checkJSONResponse ----
    status,      \* resp.StatusCode
    respBody,    \* resp.Body, as the JSON decoder reads it
    kpc,         \* "call" before the check; "done" after checkImageResponse,
                 \* "jsondone" after checkJSONResponse
    chkErr,      \* the error it returned: NilError or [StatusCode, Message]
    \* ---- Config ----
    conf,        \* the Config value
    last,        \* the last Set or Unset: [op, key, value, failed]
    got,         \* the result of the Get made since: [key, value, ok, first]
    nops,        \* number of operations made
    \* ---- TemplatesCmd.loadTemplates ----
    refresh,     \* c.Refresh
    filter,      \* c.Filter
    client,      \* api.ClientFromContext(ctx) is not nil
    cachePathErr,\* config.CachePath() returns an error
    ttl,         \* the TTL loadCache passes on, in hours
    cacheFile,   \* the cache file: [kind, templates, age], age in hours
    file0,       \* history: the cache file when loadTemplates was called
    tpc,         \* position in loadTemplates
    templates,   \* the local templates: a list, [nil, items]
    apiCalls,    \* the filter of each client.ListTemplates call made
    saves,       \* per cache.SaveTemplates call: [list, ok]
    tret,        \* what loadTemplates returned: [templates, err]
    \* ---- tui.Model (the template picker) ----
    items,       \* the templates NewPicker was given
    model,       \* the Model value (m in the code)
    lastMsg,     \* the message Update handled last
    cmd          \* the tea.Cmd that Update returned

codecVars == <<text, encoded, decoded, cpc>>
rtVars == <<maxRetries, baseDelay, req, body, ctxDone, ctxErr, cancelledAt, pc,
            attempt,
            resp, err, retryable, allRetryable, calls, sent, closed, waits, ret>>
cfg == <<maxRetries, baseDelay, req>>
logVars == <<verbose, lpc, logs, lret>>
ordVars == <<fn, otext, cur, left>>
chkVars == <<status, respBody, kpc, chkErr>>
confVars == <<conf, last, got, nops>>
tplVars == <<refresh, filter, client, cachePathErr, ttl, cacheFile, file0, tpc,
             templates, apiCalls, saves, tret>>
tplIn == <<refresh, filter, client, cachePathErr, ttl, file0>>
pickVars == <<items, model, lastMsg, cmd>>
cmdVars == <<tplVars, pickVars>>
vars == <<codecVars, rtVars, logVars, ordVars, chkVars, confVars, cmdVars>>

\* What each part of the program leaves alone.
besideRT == <<codecVars, logVars, ordVars, chkVars, confVars, cmdVars>>
besideLog == <<codecVars, rtVars, ordVars, chkVars, confVars, cmdVars>>
besideCodec == <<rtVars, logVars, ordVars, chkVars, confVars, cmdVars>>
besideOrder == <<codecVars, rtVars, logVars, chkVars, confVars, cmdVars>>
besideCheck == <<codecVars, rtVars, logVars, ordVars, confVars, cmdVars>>
besideConfig == <<codecVars, rtVars, logVars, ordVars, chkVars, cmdVars>>
besideTemplates ==
    <<codecVars, rtVars, logVars, ordVars, chkVars, confVars, pickVars>>
besidePicker ==
    <<codecVars, rtVars, logVars, ordVars, chkVars, confVars, tplVars>>

(***************************************************************************)
(* Bounds of the model.                                                    *)
(***************************************************************************)
MaxLen == 3           \* longest input over CoreChars
MaxShort == 2         \* longest input over the whole alphabet
MaxRetriesBound == 3  \* largest t.maxRetries explored

(***************************************************************************)
(* strings.ReplaceAll(s, old, new) for a non-empty old: the non-overlapping*)
(* occurrences of old, found left to right, are replaced by new.           *)
(***************************************************************************)
RECURSIVE ReplaceAll(_, _, _)
ReplaceAll(s, old, new) ==
    IF Len(s) < Len(old) THEN s
    ELSE IF SubSeq(s, 1, Len(old)) = old
         THEN new \o ReplaceAll(SubSeq(s, Len(old) + 1, Len(s)), old, new)
         ELSE <<Head(s)>> \o ReplaceAll(Tail(s), old, new)

\* Encode, step 1: literal underscores and dashes are doubled.
EncodeStep1(t) ==
    ReplaceAll(ReplaceAll(t, <<"_">>, <<"_", "_">>), <<"-">>, <<"-", "-">>)

\* Encode, step 2 left out: spaces are kept.
EncodeStep2KeepsSpaces(t) == t

\* Encode, step 2: spaces become single underscores.
EncodeStep2(t) == ReplaceAll(t, <<" ">>, <<"_">>)

\* Encode, step 3: the ten special characters, in the order of the source.
EncodeStep3(t) ==
    LET t1 == ReplaceAll(t, <<"?">>, <<"~", "q">>)
        t2 == ReplaceAll(t1, <<"%">>, <<"~", "p">>)
        t3 == ReplaceAll(t2, <<"#">>, <<"~", "h">>)
        t4 == ReplaceAll(t3, <<"\"">>, <<"'", "'">>)
        t5 == ReplaceAll(t4, <<"/">>, <<"~", "s">>)
        t6 == ReplaceAll(t5, <<"BSL">>, <<"~", "b">>)
        t7 == ReplaceAll(t6, <<"LF">>, <<"~", "n">>)
        t8 == ReplaceAll(t7, <<"&">>, <<"~", "a">>)
        t9 == ReplaceAll(t8, <<"<">>, <<"~", "l">>)
    IN  ReplaceAll(t9, <<">">>, <<"~", "g">>)

\* Encode with the spaces converted before the underscores are doubled.
EncodeSpacesFirst(t) == EncodeStep3(EncodeStep1(EncodeStep2(t)))

Encode(t) == EncodeStep3(EncodeStep2(EncodeStep1(t)))

\* Decode, step 1: tilde escapes and the doubled apostrophe, in source order.
DecodeStep1(t) ==
    LET t1 == ReplaceAll(t, <<"~", "q">>, <<"?">>)
        t2 == ReplaceAll(t1, <<"~", "p">>, <<"%">>)
        t3 == ReplaceAll(t2, <<"~", "h">>, <<"#">>)
        t4 == ReplaceAll(t3, <<"~", "a">>, <<"&">>)
        t5 == ReplaceAll(t4, <<"~", "l">>, <<"<">>)
        t6 == ReplaceAll(t5, <<"~", "g">>, <<">">>)
        t7 == ReplaceAll(t6, <<"~", "b">>, <<"BSL">>)
        t8 == ReplaceAll(t7, <<"~", "s">>, <<"/">>)
        t9 == ReplaceAll(t8, <<"~", "n">>, <<"LF">>)
    IN  ReplaceAll(t9, <<"'", "'">>, <<"\"">>)

\* Decode, step 2 without the placeholder: "__" -> "_", then "_" -> space.
DecodeStep2Naive(t) ==
    ReplaceAll(ReplaceAll(t, <<"_", "_">>, <<"_">>), <<"_">>, <<" ">>)

\* Decode, step 2 with every underscore read as a space.
DecodeStep2SpacesOnly(t) == ReplaceAll(t, <<"_">>, <<" ">>)

\* Decode, step 2: "__" -> 0x00, "_" -> space, 0x00 -> "_".
DecodeStep2(t) ==
    ReplaceAll(ReplaceAll(ReplaceAll(t, <<"_", "_">>, <<"NUL">>),
                          <<"_">>, <<" ">>),
               <<"NUL">>, <<"_">>)

\* Decode, step 3: "--" -> 0x01, 0x01 -> "-".
DecodeStep3(t) ==
    ReplaceAll(ReplaceAll(t, <<"-", "-">>, <<"SOH">>), <<"SOH">>, <<"-">>)

Decode(t) == DecodeStep3(DecodeStep2(DecodeStep1(t)))

(***************************************************************************)
(* The inputs of the codec.                                                *)
(***************************************************************************)
Chars == {"_", "-", " ", "?", "%", "#", "\"", "/", "BSL", "LF", "&", "<", ">",
          "~", "'", "q", "p", "h", "s", "b", "n", "a", "l", "g",
          "NUL", "SOH", "x"}

CoreChars == {"_", "-", " ", "~", "q", "'", "\"", "?", "NUL", "SOH", "x"}

Strs(A, n) == UNION {[1..k -> A] : k \in 0..n}

\* Inputs of the repository's tests that the bounded sets leave out.
TestStrings == {<<"a", " ", " ", "b">>, <<"_", "_", "_", "_">>}

Inputs == Strs(CoreChars, MaxLen) \cup Strs(Chars, MaxShort) \cup TestStrings

InitCodec ==
    /\ text \in Inputs
    /\ encoded = <<>>
    /\ decoded = <<>>
    /\ cpc = "input"

DoEncode ==
    /\ cpc = "input"
    /\ encoded' = Encode(text)
    /\ cpc' = "encoded"
    /\ UNCHANGED <<text, decoded>>

DoDecode ==
    /\ cpc = "encoded"
    /\ decoded' = Decode(encoded)
    /\ cpc' = "decoded"
    /\ UNCHANGED <<text, encoded>>

\* Decode applied to the input itself.
DoDecodeText ==
    /\ cpc = "input"
    /\ decoded' = Decode(text)
    /\ cpc' = "textdecoded"
    /\ UNCHANGED <<text, encoded>>

(***************************************************************************)
(* retryTransport.                                                         *)
(***************************************************************************)
StatusTooManyRequests == 429
StatusInternalServerError == 500
StatusGatewayTimeout == 504

\* shouldRetry: 429 and 500..504.
shouldRetryAny5xx(statusCode) ==
    \/ statusCode = StatusTooManyRequests
    \/ statusCode >= StatusInternalServerError

shouldRetryAny4xx(statusCode) ==
    statusCode >= 400 /\ statusCode <= StatusGatewayTimeout

shouldRetry(statusCode) ==
    \/ statusCode = StatusTooManyRequests
    \/ (statusCode >= StatusInternalServerError /\ statusCode <= StatusGatewayTimeout)

\* The loop condition of "for attempt := range t.maxRetries + 1".
InRangeOneMore(a, max) == a < max + 2

InRange(a, max) == a < max + 1

\* "if attempt < t.maxRetries": a retry follows this attempt.
RetriesRemain(a, max) == a < max

\* delay := t.baseDelay * (1 << attempt)
DelayLinear(base, a) == base * (a + 1)

Delay(base, a) == base * (2 ^ a)

\* The statuses the base transport may answer with.
StatusCodes == {200, 201, 204, 301, 302, 400, 401, 404}
               \cup (426..432) \cup (497..507)

\* The values of t.baseDelay the repository uses, in milliseconds.
BaseDelays == {1, 500, 1000}

\* The request payload, and the errors of the collaborators.
Payload == <<"b1", "b2">>
NoErr == "nil"
TransportErr == "transport error"
BodyErr == "body error"
CtxErrs == {"context canceled", "context deadline exceeded"}

NilResp == [attempt |-> -1, status |-> 0]
NoReturn == [resp |-> NilResp, err |-> <<>>]

Requests == [hasBody : BOOLEAN, hasGetBody : BOOLEAN]

InitRT ==
    /\ maxRetries \in 0..MaxRetriesBound
    /\ baseDelay \in BaseDelays
    /\ req \in Requests
    /\ body = IF req.hasBody THEN Payload ELSE <<>>
    /\ ctxDone \in BOOLEAN
    /\ ctxErr \in IF ctxDone THEN CtxErrs ELSE {NoErr}
    /\ cancelledAt = IF ctxDone THEN "entry" ELSE "never"
    /\ pc = "loop"
    /\ attempt = 0
    /\ resp = NilResp
    /\ err = NoErr
    /\ retryable = FALSE
    /\ allRetryable = TRUE
    /\ calls = 0
    /\ sent = <<>>
    /\ closed = <<>>
    /\ waits = <<>>
    /\ ret = NoReturn

\* RoundTrip returns (r, e).
Return(r, e) ==
    /\ pc' = "done"
    /\ ret' = [resp |-> r, err |-> e]

\* Line 22 with the context checked before every attempt.
LoopHeadChecksCtx ==
    /\ pc = "loop"
    /\ IF ctxDone
       THEN Return(NilResp, <<"retry wait", ctxErr>>)
       ELSE IF InRange(attempt, maxRetries)
            THEN pc' = "clone" /\ UNCHANGED ret
            ELSE Return(resp, <<>>)
    /\ UNCHANGED <<cfg, body, ctxDone, ctxErr, cancelledAt, attempt,
                   resp, err, retryable, allRetryable, calls, sent, closed,
                   waits>>

\* Line 22, and line 56 when the range is exhausted.
LoopHead ==
    /\ pc = "loop"
    /\ IF InRange(attempt, maxRetries)
       THEN pc' = "clone" /\ UNCHANGED ret
       ELSE Return(resp, <<>>)
    /\ UNCHANGED <<cfg, body, ctxDone, ctxErr, cancelledAt, attempt,
                   resp, err, retryable, allRetryable, calls, sent, closed,
                   waits>>

\* Lines 24-31 with the clone skipped whatever the request.
CloneBodyNever ==
    /\ pc = "clone"
    /\ pc' = "send"
    /\ UNCHANGED <<cfg, body, ctxDone, ctxErr, cancelledAt, attempt,
                   resp, err, retryable, allRetryable, calls, sent, closed,
                   waits, ret>>

\* Lines 24-31: the body is cloned when the request has a body and a factory.
CloneBody ==
    /\ pc = "clone"
    /\ \/ /\ ~(req.hasBody /\ req.hasGetBody)
          /\ pc' = "send"
          /\ UNCHANGED <<body, ret>>
       \/ /\ req.hasBody /\ req.hasGetBody
          /\ body' = Payload
          /\ pc' = "send"
          /\ UNCHANGED ret
       \/ /\ req.hasBody /\ req.hasGetBody
          /\ Return(NilResp, <<"cloning request body", BodyErr>>)
          /\ UNCHANGED body
    /\ UNCHANGED <<cfg, ctxDone, ctxErr, cancelledAt, attempt, resp,
                   err, retryable, allRetryable, calls, sent, closed, waits>>

\* Line 33: one call of the base transport, which reads the body it is given
\* and answers with a response or with an error.
BaseRoundTrip ==
    /\ pc = "send"
    /\ calls' = calls + 1
    /\ sent' = Append(sent, body)
    /\ body' = <<>>
    /\ \/ \E c \in StatusCodes :
            /\ resp' = [attempt |-> attempt, status |-> c]
            /\ err' = NoErr
            /\ closed' = Append(closed, FALSE)
            /\ allRetryable' = (allRetryable /\
                                (c = 429 \/ (c >= 500 /\ c <= 504)))
       \/ /\ resp' = NilResp
          /\ err' = TransportErr
          /\ UNCHANGED <<closed, allRetryable>>
    /\ pc' = "check"
    /\ UNCHANGED <<cfg, ctxDone, ctxErr, cancelledAt, attempt,
                   retryable, waits, ret>>

\* Lines 34-42 with a transport error handled like a retryable status.
CheckResultRetryErr ==
    /\ pc = "check"
    /\ retryable' = (err = NoErr /\ shouldRetry(resp.status))
    /\ IF err = NoErr /\ ~shouldRetry(resp.status)
       THEN Return(resp, <<>>) /\ UNCHANGED attempt
       ELSE IF RetriesRemain(attempt, maxRetries)
            THEN pc' = (IF err = NoErr THEN "backoff" ELSE "loop")
                 /\ attempt' = (IF err = NoErr THEN attempt ELSE attempt + 1)
                 /\ UNCHANGED ret
            ELSE pc' = "loop" /\ attempt' = attempt + 1 /\ UNCHANGED ret
    /\ UNCHANGED <<cfg, body, ctxDone, ctxErr, cancelledAt, resp,
                   err, allRetryable, calls, sent, closed, waits>>

\* Lines 34-42: a transport error is returned wrapped; a response that
\* shouldRetry rejects is returned; otherwise the attempt is followed by a
\* backoff when retries remain, and by the end of the loop when none does.
CheckResult ==
    /\ pc = "check"
    /\ retryable' = (err = NoErr /\ shouldRetry(resp.status))
    /\ IF err # NoErr
       THEN Return(NilResp, <<"round trip", err>>) /\ UNCHANGED attempt
       ELSE IF ~shouldRetry(resp.status)
            THEN Return(resp, <<>>) /\ UNCHANGED attempt
            ELSE IF RetriesRemain(attempt, maxRetries)
                 THEN pc' = "backoff" /\ UNCHANGED <<attempt, ret>>
                 ELSE pc' = "loop" /\ attempt' = attempt + 1 /\ UNCHANGED ret
    /\ UNCHANGED <<cfg, body, ctxDone, ctxErr, cancelledAt, resp,
                   err, allRetryable, calls, sent, closed, waits>>

\* Lines 44-49 without the close of the response body.
BackoffNoClose ==
    /\ pc = "backoff"
    /\ waits' = Append(waits, Delay(baseDelay, attempt))
    /\ \/ /\ ~ctxDone
          /\ pc' = "wait"
          /\ UNCHANGED <<attempt, ret>>
       \/ /\ ctxDone
          /\ Return(NilResp, <<"retry wait", ctxErr>>)
          /\ UNCHANGED attempt
       \/ /\ ctxDone
          /\ pc' = "loop"
          /\ attempt' = attempt + 1
          /\ UNCHANGED ret
    /\ UNCHANGED <<cfg, body, ctxDone, ctxErr, cancelledAt, resp,
                   err, retryable, allRetryable, calls, sent, closed>>

\* Lines 44-49: the response body is closed, the delay computed, the timer
\* started and the select entered.  With the context not yet done the select
\* blocks.  With the context already done the select takes the Done case, or,
\* when the timer has expired as well by the time the select polls, either
\* of the two ready cases.
Backoff ==
    /\ pc = "backoff"
    /\ closed' = [closed EXCEPT ![Len(closed)] = TRUE]
    /\ waits' = Append(waits, Delay(baseDelay, attempt))
    /\ \/ /\ ~ctxDone
          /\ pc' = "wait"
          /\ UNCHANGED <<attempt, ret>>
       \/ /\ ctxDone
          /\ Return(NilResp, <<"retry wait", ctxErr>>)
          /\ UNCHANGED attempt
       \/ /\ ctxDone
          /\ pc' = "loop"
          /\ attempt' = attempt + 1
          /\ UNCHANGED ret
    /\ UNCHANGED <<cfg, body, ctxDone, ctxErr, cancelledAt, resp,
                   err, retryable, allRetryable, calls, sent>>

\* Line 51: the select is blocked and the timer fires first.
WaitElapsed ==
    /\ pc = "wait"
    /\ ~ctxDone
    /\ pc' = "loop"
    /\ attempt' = attempt + 1
    /\ UNCHANGED <<cfg, body, ctxDone, ctxErr, cancelledAt, resp,
                   err, retryable, allRetryable, calls, sent, closed, waits,
                   ret>>

\* Lines 49-50 replaced by an uninterruptible sleep.
WaitCancelledSleeps ==
    /\ pc = "wait"
    /\ ctxDone
    /\ pc' = "loop"
    /\ attempt' = attempt + 1
    /\ UNCHANGED <<cfg, body, ctxDone, ctxErr, cancelledAt, resp,
                   err, retryable, allRetryable, calls, sent, closed, waits,
                   ret>>

\* Lines 49-50: the select is blocked and the context is done first.
WaitCancelled ==
    /\ pc = "wait"
    /\ ctxDone
    /\ Return(NilResp, <<"retry wait", ctxErr>>)
    /\ UNCHANGED <<cfg, body, ctxDone, ctxErr, cancelledAt, attempt,
                   resp, err, retryable, allRetryable, calls, sent, closed,
                   waits>>

\* The caller cancels the request's context, or its deadline passes.
Cancel ==
    /\ pc # "done"
    /\ ~ctxDone
    /\ ctxDone' = TRUE
    /\ ctxErr' \in CtxErrs
    /\ cancelledAt' = pc
    /\ UNCHANGED <<cfg, body, pc, attempt, resp, err,
                   retryable, allRetryable, calls, sent, closed, waits, ret>>

(***************************************************************************)
(* NormalizeQuotes, and the replacement passes of Decode's step 1 and of   *)
(* NormalizeQuotes taken one at a time in any order.  The five code points *)
(* are the characters U2019, U201C, U201D, U2013 and U2014.                *)
(***************************************************************************)
MaxOrderLen == 2

NormalizeQuotes(t) ==
    LET t1 == ReplaceAll(t, <<"U2019">>, <<"'">>)
        t2 == ReplaceAll(t1, <<"U201C">>, <<"\"">>)
        t3 == ReplaceAll(t2, <<"U201D">>, <<"\"">>)
        t4 == ReplaceAll(t3, <<"U2013">>, <<"-">>)
    IN  ReplaceAll(t4, <<"U2014">>, <<"-", "-">>)

\* The passes of Decode's step 1 with '' rewritten to a tilde.
DecodeRulesFeeding ==
    << <<<<"~", "q">>, <<"?">>>>, <<<<"~", "p">>, <<"%">>>>,
       <<<<"~", "h">>, <<"#">>>>, <<<<"~", "a">>, <<"&">>>>,
       <<<<"~", "l">>, <<"<">>>>, <<<<"~", "g">>, <<">">>>>,
       <<<<"~", "b">>, <<"BSL">>>>, <<<<"~", "s">>, <<"/">>>>,
       <<<<"~", "n">>, <<"LF">>>>, <<<<"'", "'">>, <<"~">>>> >>

\* The passes of Decode's step 1: <<old, new>> per ReplaceAll, in line order.
DecodeRules ==
    << <<<<"~", "q">>, <<"?">>>>, <<<<"~", "p">>, <<"%">>>>,
       <<<<"~", "h">>, <<"#">>>>, <<<<"~", "a">>, <<"&">>>>,
       <<<<"~", "l">>, <<"<">>>>, <<<<"~", "g">>, <<">">>>>,
       <<<<"~", "b">>, <<"BSL">>>>, <<<<"~", "s">>, <<"/">>>>,
       <<<<"~", "n">>, <<"LF">>>>, <<<<"'", "'">>, <<"\"">>>> >>

\* The passes of NormalizeQuotes with the en dash rewritten to an em dash.
NormalizeRulesFeeding ==
    << <<<<"U2019">>, <<"'">>>>, <<<<"U201C">>, <<"\"">>>>,
       <<<<"U201D">>, <<"\"">>>>, <<<<"U2013">>, <<"U2014">>>>,
       <<<<"U2014">>, <<"-", "-">>>> >>

\* The passes of NormalizeQuotes, in line order.
NormalizeRules ==
    << <<<<"U2019">>, <<"'">>>>, <<<<"U201C">>, <<"\"">>>>,
       <<<<"U201D">>, <<"\"">>>>, <<<<"U2013">>, <<"-">>>>,
       <<<<"U2014">>, <<"-", "-">>>> >>

Rules(f) == IF f = "Decode" THEN DecodeRules ELSE NormalizeRules

DecodeOrderChars == {"~", "'", "q", "n", "_", "-"}
QuoteChars == {"U2019", "U201C", "U201D", "U2013", "U2014", "'", "-", "x"}

\* Inputs beyond the bounded sets: every escape of step 1, and the mixed case
\* of TestNormalizeQuotes.
OrderStrings(f) ==
    IF f = "Decode"
    THEN { <<"~", "q", "~", "p", "~", "h", "_">>,
           <<"~", "a", "-", "~", "l", "~", "g">>,
           <<"~", "b", "~", "s", "~", "n", "'", "'">>,
           <<"~", "q", "_", "'", "'">>,
           <<"'", "'", "'", "~", "~", "q", "q">> }
    ELSE { <<"U201C", "x", "U201D", " ", "U2014", " ", "x", "U2019", "x">>,
           <<"x", "U2013", "x">> }

OrderInputs(f) ==
    Strs(IF f = "Decode" THEN DecodeOrderChars ELSE QuoteChars, MaxOrderLen)
        \cup OrderStrings(f)

InitOrder ==
    /\ fn \in {"Decode", "NormalizeQuotes"}
    /\ otext \in OrderInputs(fn)
    /\ cur = otext
    /\ left = DOMAIN Rules(fn)

\* One strings.ReplaceAll pass, any of those not yet made.
ApplyPass ==
    /\ \E i \in left :
          /\ cur' = ReplaceAll(cur, Rules(fn)[i][1], Rules(fn)[i][2])
          /\ left' = left \ {i}
    /\ UNCHANGED <<fn, otext>>

(***************************************************************************)
(* checkImageResponse, checkJSONResponse and statusMessage (package api).  *)
(***************************************************************************)
MinStatus == 100
MaxStatus == 599

StatusNotFound == 404
StatusRequestURITooLong == 414
StatusUnsupportedMediaType == 415
StatusUnprocessableEntity == 422

\* statusMessage with the default case's text for every code.
statusMessageDefaultOnly(code) ==
    "unexpected error (HTTP " \o ToString(code) \o ")"

statusMessage(code) ==
    CASE code = StatusNotFound -> "template not found"
      [] code = StatusRequestURITooLong
            -> "text too long (max 200 chars per line)"
      [] code = StatusUnsupportedMediaType -> "could not download image URL"
      [] code = StatusUnprocessableEntity
            -> "invalid style or missing image URL"
      [] code = StatusTooManyRequests -> "rate limited, try again later"
      [] OTHER -> "unexpected error (HTTP " \o ToString(code) \o ")"

\* A nil error.
NilError == [StatusCode |-> 0, Message |-> ""]

\* The response bodies, each described by the first JSON value of the stream,
\* which is what Decoder.Decode reads: kind is what that value is ("garbage"
\* when it is not well-formed JSON, "empty" when the stream has no value),
\* field is what the object holds under "error", value is that string.
Body(k, f, v) == [kind |-> k, field |-> f, value |-> v]

NoBody == Body("empty", "absent", "")

Bodies ==
    { NoBody,
      Body("garbage", "absent", ""),
      Body("null", "absent", ""),
      Body("array", "absent", ""),
      Body("object", "absent", ""),
      Body("object", "number", ""),
      Body("object", "string", ""),
      Body("object", "string", "boom"),
      Body("object", "string", "template 'xyz' not found") }

\* json.NewDecoder(resp.Body).Decode(&apiErr): failed tells whether the
\* returned error is non-nil, Error is apiErr.Error afterwards.  A stream
\* without a well-formed value fails, as does a value that is not an object
\* (null leaves apiErr alone) and an "error" that is not a string.
jsonDecode(b) ==
    LET failed == \/ b.kind \in {"empty", "garbage", "array"}
                  \/ (b.kind = "object" /\ b.field = "number")
    IN  [failed |-> failed,
         Error |-> IF ~failed /\ b.kind = "object" /\ b.field = "string"
                   THEN b.value
                   ELSE ""]

InitCheck ==
    /\ status \in MinStatus..MaxStatus
    /\ respBody \in Bodies
    /\ kpc = "call"
    /\ chkErr = NilError

checkImageResponse ==
    /\ kpc = "call"
    /\ chkErr' = IF status >= 200 /\ status < 300
                 THEN NilError
                 ELSE [StatusCode |-> status, Message |-> statusMessage(status)]
    /\ kpc' = "done"
    /\ UNCHANGED <<status, respBody>>

\* checkJSONResponse taking the decoded "error" whenever the decoding succeeds.
checkJSONResponseKeepsEmpty ==
    /\ kpc = "call"
    /\ chkErr' = IF status >= 200 /\ status < 300
                 THEN NilError
                 ELSE LET apiErr == jsonDecode(respBody)
                      IN  IF ~apiErr.failed
                          THEN [StatusCode |-> status, Message |-> apiErr.Error]
                          ELSE [StatusCode |-> status,
                                Message |-> statusMessage(status)]
    /\ kpc' = "jsondone"
    /\ UNCHANGED <<status, respBody>>

checkJSONResponse ==
    /\ kpc = "call"
    /\ chkErr' = IF status >= 200 /\ status < 300
                 THEN NilError
                 ELSE LET apiErr == jsonDecode(respBody)
                      IN  IF ~apiErr.failed /\ apiErr.Error # ""
                          THEN [StatusCode |-> status, Message |-> apiErr.Error]
                          ELSE [StatusCode |-> status,
                                Message |-> statusMessage(status)]
    /\ kpc' = "jsondone"
    /\ UNCHANGED <<status, respBody>>

(***************************************************************************)
(* Config.Get, Config.Set and Config.Unset (package config).  A *bool      *)
(* field is <<>> when nil and <<b>> when it points to b.                   *)
(***************************************************************************)
MaxOps == 2

StringKeys == {"default_format", "default_font", "default_layout", "cache_ttl"}
BoolKeys == {"safe", "auto_copy", "auto_open", "preview"}
knownKeys == StringKeys \cup BoolKeys
Keys == knownKeys \cup {"unknown_key"}

\* The values handed to Set.
Values ==
    {"", "png", "webp", "default", "top", "true", "false", "1h", "0", "impact"}

\* The values of Values that time.ParseDuration parses.
ParseDuration(val) == val \in {"1h", "0"}

validateEnum(allowed, val) == val \in allowed
validateBool(val) == ~(val # "true" /\ val # "false")
validateDuration(val) == ParseDuration(val)

\* knownKeys[key].validate(value) returns nil (a nil validator is not called).
Valid(key, value) ==
    CASE key = "default_format"
            -> validateEnum({"jpg", "png", "gif", "webp"}, value)
      [] key = "default_font" -> TRUE
      [] key = "default_layout" -> validateEnum({"default", "top"}, value)
      [] key \in BoolKeys -> validateBool(value)
      [] key = "cache_ttl" -> validateDuration(value)

EmptyConfig ==
    [default_format |-> "", default_font |-> "", default_layout |-> "",
     safe |-> <<>>, auto_copy |-> <<>>, auto_open |-> <<>>, preview |-> <<>>,
     cache_ttl |-> ""]

\* The Config values the operations start from: Config{} and two loaded ones.
Configs ==
    { EmptyConfig,
      [default_format |-> "png", default_font |-> "impact",
       default_layout |-> "top", safe |-> <<TRUE>>, auto_copy |-> <<FALSE>>,
       auto_open |-> <<TRUE>>, preview |-> <<FALSE>>, cache_ttl |-> "1h"],
      [EmptyConfig EXCEPT !.default_font = "impact", !.safe = <<FALSE>>] }

NoOp == [op |-> "none", key |-> "", value |-> "", failed |-> FALSE]
NoGet == [key |-> "", value |-> "", ok |-> FALSE, first |-> FALSE]

InitConfig ==
    /\ conf \in Configs
    /\ last = NoOp
    /\ got = NoGet
    /\ nops = 0

Get(key) ==
    /\ nops < MaxOps
    /\ got' = [key |-> key,
               value |-> IF key \in StringKeys THEN conf[key]
                         ELSE IF key \in BoolKeys /\ conf[key] # <<>>
                              THEN (IF conf[key][1] THEN "true" ELSE "false")
                              ELSE "",
               ok |-> IF key \in StringKeys THEN conf[key] # ""
                      ELSE key \in BoolKeys /\ conf[key] # <<>>,
               first |-> got = NoGet]
    /\ nops' = nops + 1
    /\ UNCHANGED <<conf, last>>

\* Set with the field assigned before the validator is asked.
SetStoresFirst(key, value) ==
    /\ nops < MaxOps
    /\ IF key \notin knownKeys
       THEN /\ last' = [op |-> "Set", key |-> key, value |-> value,
                        failed |-> TRUE]
            /\ UNCHANGED conf
       ELSE /\ conf' = [conf EXCEPT ![key] = IF key \in BoolKeys
                                             THEN <<value = "true">>
                                             ELSE value]
            /\ last' = [op |-> "Set", key |-> key, value |-> value,
                        failed |-> ~Valid(key, value)]
    /\ got' = NoGet
    /\ nops' = nops + 1

Set(key, value) ==
    /\ nops < MaxOps
    /\ IF key \notin knownKeys
       THEN /\ last' = [op |-> "Set", key |-> key, value |-> value,
                        failed |-> TRUE]
            /\ UNCHANGED conf
       ELSE IF ~Valid(key, value)
       THEN /\ last' = [op |-> "Set", key |-> key, value |-> value,
                        failed |-> TRUE]
            /\ UNCHANGED conf
       ELSE /\ conf' = [conf EXCEPT ![key] = IF key \in BoolKeys
                                             THEN <<value = "true">>
                                             ELSE value]
            /\ last' = [op |-> "Set", key |-> key, value |-> value,
                        failed |-> FALSE]
    /\ got' = NoGet
    /\ nops' = nops + 1

Unset(key) ==
    /\ nops < MaxOps
    /\ IF key \notin knownKeys
       THEN /\ last' = [op |-> "Unset", key |-> key, value |-> "",
                        failed |-> TRUE]
            /\ UNCHANGED conf
       ELSE /\ conf' = [conf EXCEPT ![key] = IF key \in BoolKeys
                                             THEN <<>> ELSE ""]
            /\ last' = [op |-> "Unset", key |-> key, value |-> "",
                        failed |-> FALSE]
    /\ got' = NoGet
    /\ nops' = nops + 1

(***************************************************************************)
(* TemplatesCmd.loadTemplates (package cmd) with cache.LoadTemplates and   *)
(* cache.SaveTemplates.  A []api.Template is [nil, items]: the nil slice,  *)
(* or a slice of template ids.  Times are in hours.                        *)
(***************************************************************************)
NilList == [nil |-> TRUE, items |-> <<>>]
List(ids) == [nil |-> FALSE, items |-> ids]

\* The lists a cache file or an API answer holds; JSON null gives the nil one.
Lists == {NilList, List(<<>>), List(<<"drake">>), List(<<"drake", "fry">>)}

\* cfg.CacheTTLDuration(): the default of 24h, or a cache_ttl of 1h.
TTLs == {1, 24}
Ages == {0, 1, 2, 24, 25}

NoFile == [kind |-> "missing", templates |-> NilList, age |-> 0]

\* The states of the cache file: absent, unreadable (os.ReadFile fails
\* otherwise), not JSON, or a TemplateCache written age hours ago.
CacheFiles ==
    [kind : {"missing", "unreadable", "corrupt"}, templates : {NilList},
     age : {0}]
    \cup [kind : {"valid"}, templates : Lists, age : Ages]

NoTplReturn == [templates |-> NilList, err |-> <<>>]

\* cache.LoadTemplates(path, ttl): [templates, err].
LoadTemplates(file, t) ==
    CASE file.kind = "missing" -> [templates |-> NilList, err |-> <<>>]
      [] file.kind = "unreadable"
            -> [templates |-> NilList, err |-> <<"reading cache", "EACCES">>]
      [] file.kind = "corrupt" -> [templates |-> NilList, err |-> <<>>]
      [] OTHER -> IF file.age > t
                  THEN [templates |-> NilList, err |-> <<>>]
                  ELSE [templates |-> file.templates, err |-> <<>>]

\* c.loadCache(ctx): nil on a path error, a load error or a miss.
loadCache ==
    IF cachePathErr THEN NilList
    ELSE LET r == LoadTemplates(cacheFile, ttl)
         IN  IF r.err # <<>> THEN NilList ELSE r.templates

InitTemplates ==
    /\ refresh \in BOOLEAN
    /\ filter \in {"", "drake"}
    /\ client \in BOOLEAN
    /\ cachePathErr \in BOOLEAN
    /\ ttl \in TTLs
    /\ cacheFile \in CacheFiles
    /\ file0 = cacheFile
    /\ tpc = "start"
    /\ templates = NilList
    /\ apiCalls = <<>>
    /\ saves = <<>>
    /\ tret = NoTplReturn

TplReturn(l, e) ==
    /\ tpc' = "done"
    /\ tret' = [templates |-> l, err |-> e]

\* Lines 240-254: the client is looked up, then the cache is tried for an
\* unfiltered request without --refresh.
TryCache ==
    /\ tpc = "start"
    /\ IF ~client
       THEN /\ TplReturn(NilList, <<"api client not found in context">>)
            /\ UNCHANGED templates
       ELSE /\ templates' = IF ~refresh /\ filter = "" THEN loadCache
                            ELSE NilList
            /\ tpc' = "fetch"
            /\ UNCHANGED tret
    /\ UNCHANGED <<tplIn, cacheFile, apiCalls, saves>>

\* Lines 257-264 and 271: with no list from the cache the API is asked; the
\* answer is a list or an error.
FetchTemplates ==
    /\ tpc = "fetch"
    /\ IF ~templates.nil
       THEN /\ TplReturn(templates, <<>>)
            /\ UNCHANGED <<templates, apiCalls>>
       ELSE /\ apiCalls' = Append(apiCalls, filter)
            /\ \/ /\ TplReturn(NilList, <<"listing templates", "api error">>)
                  /\ UNCHANGED templates
               \/ /\ templates' \in Lists
                  /\ tpc' = "save"
                  /\ UNCHANGED tret
    /\ UNCHANGED <<tplIn, cacheFile, saves>>

\* Lines 266-271 with the filter not looked at.
PersistCacheAlways ==
    /\ tpc = "save"
    /\ IF ~cachePathErr
       THEN \E ok \in BOOLEAN :
              /\ saves' = Append(saves, [list |-> templates, ok |-> ok])
              /\ cacheFile' = IF ok
                              THEN [kind |-> "valid", templates |-> templates,
                                    age |-> 0]
                              ELSE cacheFile
       ELSE UNCHANGED <<saves, cacheFile>>
    /\ TplReturn(templates, <<>>)
    /\ UNCHANGED <<tplIn, templates, apiCalls>>

\* Lines 266-271: an unfiltered answer is handed to saveCache, which gives up
\* on a path error and ignores a failed write; then the list is returned.
PersistCache ==
    /\ tpc = "save"
    /\ IF filter = "" /\ ~cachePathErr
       THEN \E ok \in BOOLEAN :
              /\ saves' = Append(saves, [list |-> templates, ok |-> ok])
              /\ cacheFile' = IF ok
                              THEN [kind |-> "valid", templates |-> templates,
                                    age |-> 0]
                              ELSE cacheFile
       ELSE UNCHANGED <<saves, cacheFile>>
    /\ TplReturn(templates, <<>>)
    /\ UNCHANGED <<tplIn, templates, apiCalls>>

(***************************************************************************)
(* tui.Model, the template picker (package tui).  Update takes a Model and *)
(* a message and returns a Model and a command; the operators below give   *)
(* the set of [m, cmd] it can return.  The list and the text inputs are    *)
(* the bubbles components: of the list the model keeps the filter state    *)
(* and cursor, the item SelectedItem() returns (0: none); where the        *)
(* component decides the cursor, any value it can take is allowed.  A      *)
(* template is [ID, Lines], the nil *api.Template is NilTemplate, and      *)
(* focusIdx counts from 0 as in the code.                                  *)
(***************************************************************************)
MaxLines == 2
MaxTyped == 1

\* One template per number of lines, 0..MaxLines.
PickItems == [i \in 1..(MaxLines + 1) |-> [ID |-> i, Lines |-> i - 1]]

NilTemplate == [ID |-> 0, Lines |-> 0]
NilTexts == [nil |-> TRUE, items |-> <<>>]

\* Keys that type a character, and the messages sent to Update: keys, a
\* message that is no key (tick) and tea.WindowSizeMsg (resize).
TypedKeys == {"a", "/"}
Msgs == {"ctrl+c", "esc", "enter", "tab", "shift+tab", "down", "tick",
         "resize"} \cup TypedKeys

\* NewPicker(items).
NewPicker ==
    [state |-> "StatePicking", filterState |-> "Unfiltered",
     cursor |-> IF Len(items) = 0 THEN 0 ELSE 1,
     selected |-> NilTemplate, cancelled |-> FALSE, width |-> 0,
     ready |-> FALSE, inputs |-> <<>>, focusIdx |-> 0, texts |-> NilTexts]

Out(mm, c) == [m |-> mm, cmd |-> c]

\* m.list.Update(msg): / starts filtering; while filtering, esc drops the
\* filter, enter applies it (or drops it when nothing matches) and anything
\* else may change what is listed; while browsing, down moves the cursor.
ListUpdate(mm, k) ==
    LET n == Len(items)
        some == IF n = 0 THEN {0} ELSE 1..n
        with(fs, cs) ==
            {Out([mm EXCEPT !.filterState = fs, !.cursor = c], "list") : c \in cs}
    IN  IF mm.filterState = "Filtering"
        THEN CASE k = "esc" -> with("Unfiltered", some)
               [] k = "enter" -> with("FilterApplied", 1..n)
                                    \cup with("Unfiltered", some)
               [] OTHER -> with("Filtering", 0..n)
        ELSE CASE k = "/" /\ n > 0 -> with("Filtering", some)
               [] k = "down" /\ mm.cursor # 0 -> with(mm.filterState, some)
               [] OTHER -> {Out(mm, "list")}

\* handlePickEnter.
handlePickEnter(mm) ==
    IF mm.cursor = 0
    THEN {Out(mm, "nil")}
    ELSE LET t == items[mm.cursor]
         IN  IF t.Lines = 0
             THEN {Out([mm EXCEPT !.selected = t,
                                  !.texts = [nil |-> FALSE, items |-> <<>>],
                                  !.state = "StateDone"], "Quit")}
             ELSE {Out([mm EXCEPT !.selected = t,
                                  !.inputs = [i \in 1..t.Lines |->
                                                [value |-> <<>>,
                                                 focus |-> i = 1]],
                                  !.focusIdx = 0,
                                  !.state = "StateInputting"], "Blink")}

\* updatePicking with Selected() cleared when the picker is cancelled.
updatePickingClearsSelected(mm, k) ==
    IF k = "ctrl+c" \/ (k = "esc" /\ mm.filterState # "Filtering")
    THEN {Out([mm EXCEPT !.cancelled = TRUE, !.state = "StateDone",
                         !.selected = NilTemplate], "Quit")}
    ELSE IF k = "enter" /\ mm.filterState # "Filtering"
    THEN handlePickEnter(mm)
    ELSE ListUpdate(mm, k)

updatePicking(mm, k) ==
    IF k = "ctrl+c" \/ (k = "esc" /\ mm.filterState # "Filtering")
    THEN {Out([mm EXCEPT !.cancelled = TRUE, !.state = "StateDone"], "Quit")}
    ELSE IF k = "enter" /\ mm.filterState # "Filtering"
    THEN handlePickEnter(mm)
    ELSE ListUpdate(mm, k)

\* Blur the focused input and focus the one at index j.
MoveFocus(mm, j) ==
    [mm EXCEPT !.inputs = [i \in 1..Len(mm.inputs) |->
                             [mm.inputs[i] EXCEPT !.focus = (i = j + 1)]],
               !.focusIdx = j]

\* m.inputs[m.focusIdx].Update(msg): a typed character is appended while
\* there is room.
InputUpdate(mm, k) ==
    IF k \in TypedKeys /\ Len(mm.inputs[mm.focusIdx + 1].value) < MaxTyped
    THEN [mm EXCEPT !.inputs[mm.focusIdx + 1].value = Append(@, k)]
    ELSE mm

\* case "enter" with the texts collected before the focus is looked at.
InputEnterCollectsFirst(mm) ==
    LET c == [mm EXCEPT !.texts = [nil |-> FALSE,
                                   items |-> [i \in 1..Len(mm.inputs) |->
                                                mm.inputs[i].value]]]
    IN  IF mm.focusIdx < Len(mm.inputs) - 1
        THEN {Out(MoveFocus(c, mm.focusIdx + 1), "Blink")}
        ELSE {Out([c EXCEPT !.state = "StateDone"], "Quit")}

\* case "enter" of updateInputting.
InputEnter(mm) ==
    IF mm.focusIdx < Len(mm.inputs) - 1
    THEN {Out(MoveFocus(mm, mm.focusIdx + 1), "Blink")}
    ELSE {Out([mm EXCEPT !.texts = [nil |-> FALSE,
                                    items |-> [i \in 1..Len(mm.inputs) |->
                                                 mm.inputs[i].value]],
                         !.state = "StateDone"], "Quit")}

\* case "tab" going round to the first input after the last.
InputTabWraps(mm) ==
    {Out(MoveFocus(mm, (mm.focusIdx + 1) % Len(mm.inputs)), "Blink")}

\* case "tab" of updateInputting.
InputTab(mm) ==
    IF mm.focusIdx < Len(mm.inputs) - 1
    THEN {Out(MoveFocus(mm, mm.focusIdx + 1), "Blink")}
    ELSE {Out(mm, "nil")}

\* case "shift+tab" of updateInputting.
InputShiftTab(mm) ==
    IF mm.focusIdx > 0
    THEN {Out(MoveFocus(mm, mm.focusIdx - 1), "Blink")}
    ELSE {Out(mm, "nil")}

updateInputting(mm, k) ==
    CASE k = "tick" -> {Out(InputUpdate(mm, k), "input")}
      [] k = "ctrl+c" ->
            {Out([mm EXCEPT !.cancelled = TRUE, !.state = "StateDone"], "Quit")}
      [] k = "esc" ->
            {Out([mm EXCEPT !.state = "StatePicking", !.inputs = <<>>,
                            !.focusIdx = 0], "nil")}
      [] k = "enter" -> InputEnter(mm)
      [] k = "tab" -> InputTab(mm)
      [] k = "shift+tab" -> InputShiftTab(mm)
      [] OTHER -> {Out(InputUpdate(mm, k), "input")}

\* Model.Update: a resize is handled in every state, anything else by the
\* state's handler; a model in StateDone is returned as it is.
UpdateModel(mm, k) ==
    IF k = "resize"
    THEN {Out([mm EXCEPT !.width = 80, !.ready = TRUE], "nil")}
    ELSE CASE mm.state = "StatePicking" -> updatePicking(mm, k)
           [] mm.state = "StateInputting" -> updateInputting(mm, k)
           [] OTHER -> {Out(mm, "nil")}

InitPicker ==
    /\ items \in {<<>>, PickItems}
    /\ model = NewPicker
    /\ lastMsg = "none"
    /\ cmd = "nil"

\* The program hands the next message to Update and keeps what it returns.
Update ==
    \E k \in Msgs :
        \E o \in UpdateModel(model, k) :
            /\ model' = o.m
            /\ cmd' = o.cmd
            /\ lastMsg' = k
            /\ UNCHANGED items

(***************************************************************************)
(* loggingTransport.  NewClient puts it around the retry layer when        *)
(* opts.Verbose is set; its base.RoundTrip is then the call of             *)
(* retryTransport.RoundTrip modelled above.                                *)
(***************************************************************************)
LogRecord(m, c, e) == [msg |-> m, status |-> c, error |-> e]

InitLog ==
    /\ verbose \in BOOLEAN
    /\ lpc = IF verbose THEN "request" ELSE "off"
    /\ logs = <<>>
    /\ lret = NoReturn

\* Line 73 without the record of the request.
LogRequestSilent ==
    /\ lpc = "request"
    /\ lpc' = "base"
    /\ UNCHANGED <<verbose, logs, lret>>

\* Line 73: the request is logged, then line 75 calls the base transport.
LogRequest ==
    /\ lpc = "request"
    /\ logs' = Append(logs, LogRecord("http request", 0, <<>>))
    /\ lpc' = "base"
    /\ UNCHANGED <<verbose, lret>>

\* The base transport has been entered (or is called directly).
InBase == lpc \in {"base", "off"}

\* Lines 76-94 with the error replaced instead of wrapped.
LogResultDropsCause ==
    /\ lpc = "base"
    /\ pc = "done"
    /\ IF ret.err # <<>>
       THEN /\ logs' = Append(logs, LogRecord("http error", 0, ret.err))
            /\ lret' = [resp |-> NilResp, err |-> <<"logging round trip">>]
       ELSE /\ logs' = Append(logs,
                              LogRecord("http response", ret.resp.status, <<>>))
            /\ lret' = [resp |-> ret.resp, err |-> <<>>]
    /\ lpc' = "done"
    /\ UNCHANGED verbose

\* Lines 76-94: the base transport has returned; its outcome is logged and
\* passed on, an error wrapped in "logging round trip".
LogResult ==
    /\ lpc = "base"
    /\ pc = "done"
    /\ IF ret.err # <<>>
       THEN /\ logs' = Append(logs, LogRecord("http error", 0, ret.err))
            /\ lret' = [resp |-> NilResp,
                        err |-> <<"logging round trip">> \o ret.err]
       ELSE /\ logs' = Append(logs,
                              LogRecord("http response", ret.resp.status, <<>>))
            /\ lret' = [resp |-> ret.resp, err |-> <<>>]
    /\ lpc' = "done"
    /\ UNCHANGED verbose

(***************************************************************************)
(* Specifications.  Spec is one request through the transport NewClient    *)
(* builds: retryTransport.RoundTrip, inside loggingTransport.RoundTrip     *)
(* when verbose; SpecCodec is one Encode followed by one Decode.           *)
(***************************************************************************)
LogIdle ==
    /\ verbose = FALSE
    /\ lpc = "off"
    /\ logs = <<>>
    /\ lret = NoReturn

OrderIdle ==
    /\ fn = "idle"
    /\ otext = <<>>
    /\ cur = <<>>
    /\ left = {}

CheckIdle ==
    /\ status = 0
    /\ respBody = NoBody
    /\ kpc = "idle"
    /\ chkErr = NilError

TemplatesIdle ==
    /\ refresh = FALSE
    /\ filter = ""
    /\ client = FALSE
    /\ cachePathErr = FALSE
    /\ ttl = 24
    /\ cacheFile = NoFile
    /\ file0 = NoFile
    /\ tpc = "idle"
    /\ templates = NilList
    /\ apiCalls = <<>>
    /\ saves = <<>>
    /\ tret = NoTplReturn

PickerIdle ==
    /\ items = <<>>
    /\ model = NewPicker
    /\ lastMsg = "idle"
    /\ cmd = "nil"

CmdIdle == TemplatesIdle /\ PickerIdle

ConfigIdle ==
    /\ conf = EmptyConfig
    /\ last = NoOp
    /\ got = NoGet
    /\ nops = 0

CodecIdle ==
    /\ text = <<>>
    /\ encoded = <<>>
    /\ decoded = <<>>
    /\ cpc = "idle"

RTIdle ==
    /\ maxRetries = 0
    /\ baseDelay = 1
    /\ req = [hasBody |-> FALSE, hasGetBody |-> FALSE]
    /\ body = <<>>
    /\ ctxDone = FALSE
    /\ ctxErr = NoErr
    /\ cancelledAt = "never"
    /\ pc = "idle"
    /\ attempt = 0
    /\ resp = NilResp
    /\ err = NoErr
    /\ retryable = FALSE
    /\ allRetryable = TRUE
    /\ calls = 0
    /\ sent = <<>>
    /\ closed = <<>>
    /\ waits = <<>>
    /\ ret = NoReturn

Init ==
    InitRT /\ InitLog /\ CodecIdle /\ OrderIdle /\ CheckIdle /\ ConfigIdle
        /\ CmdIdle

Next ==
    \/ (InBase /\ LoopHead /\ UNCHANGED besideRT)
    \/ (InBase /\ CloneBody /\ UNCHANGED besideRT)
    \/ (InBase /\ BaseRoundTrip /\ UNCHANGED besideRT)
    \/ (InBase /\ CheckResult /\ UNCHANGED besideRT)
    \/ (InBase /\ Backoff /\ UNCHANGED besideRT)
    \/ (InBase /\ WaitElapsed /\ UNCHANGED besideRT)
    \/ (InBase /\ WaitCancelled /\ UNCHANGED besideRT)
    \/ (Cancel /\ UNCHANGED besideRT)
    \/ (LogRequest /\ UNCHANGED besideLog)
    \/ (LogResult /\ UNCHANGED besideLog)

Spec == Init /\ [][Next]_vars

InitC ==
    InitCodec /\ RTIdle /\ LogIdle /\ OrderIdle /\ CheckIdle /\ ConfigIdle
        /\ CmdIdle

NextCodec ==
    \/ (DoEncode /\ UNCHANGED besideCodec)
    \/ (DoDecode /\ UNCHANGED besideCodec)
    \/ (DoDecodeText /\ UNCHANGED besideCodec)

SpecCodec == InitC /\ [][NextCodec]_vars

InitO ==
    InitOrder /\ CodecIdle /\ RTIdle /\ LogIdle /\ CheckIdle /\ ConfigIdle
        /\ CmdIdle

NextOrder == ApplyPass /\ UNCHANGED besideOrder

SpecOrder == InitO /\ [][NextOrder]_vars

InitK ==
    InitCheck /\ CodecIdle /\ RTIdle /\ LogIdle /\ OrderIdle /\ ConfigIdle
        /\ CmdIdle

NextCheck ==
    \/ (checkImageResponse /\ UNCHANGED besideCheck)
    \/ (checkJSONResponse /\ UNCHANGED besideCheck)

SpecCheck == InitK /\ [][NextCheck]_vars

InitCfg ==
    InitConfig /\ CodecIdle /\ RTIdle /\ LogIdle /\ OrderIdle /\ CheckIdle
        /\ CmdIdle

NextConfig ==
    \/ \E key \in Keys, value \in Values : Set(key, value) /\ UNCHANGED besideConfig
    \/ \E key \in Keys : Unset(key) /\ UNCHANGED besideConfig
    \/ \E key \in Keys : Get(key) /\ UNCHANGED besideConfig

SpecConfig == InitCfg /\ [][NextConfig]_vars

InitT ==
    InitTemplates /\ CodecIdle /\ RTIdle /\ LogIdle /\ OrderIdle /\ CheckIdle
        /\ ConfigIdle /\ PickerIdle

NextTemplates ==
    \/ (TryCache /\ UNCHANGED besideTemplates)
    \/ (FetchTemplates /\ UNCHANGED besideTemplates)
    \/ (PersistCache /\ UNCHANGED besideTemplates)

SpecTemplates == InitT /\ [][NextTemplates]_vars

InitP ==
    InitPicker /\ CodecIdle /\ RTIdle /\ LogIdle /\ OrderIdle /\ CheckIdle
        /\ ConfigIdle /\ TemplatesIdle

NextPicker == Update /\ UNCHANGED besidePicker

SpecPicker == InitP /\ [][NextPicker]_vars

(***************************************************************************)
(* Properties of the codec, checked under SpecCodec.                       *)
(***************************************************************************)
HasSub(s, pat) ==
    \E i \in 1..(Len(s) - Len(pat) + 1) : SubSeq(s, i, i + Len(pat) - 1) = pat

EscapeLetters == {"q", "p", "h", "a", "l", "g", "b", "s", "n"}

\* The inputs Decode(Encode(s)) restores: no space followed by a space or an
\* underscore, no tilde followed by an escape letter, no apostrophe followed
\* by an apostrophe or a double quote, and neither placeholder byte.
RoundTripSafe(s) ==
    /\ ~HasSub(s, <<" ", " ">>)
    /\ ~HasSub(s, <<" ", "_">>)
    /\ \A c \in EscapeLetters : ~HasSub(s, <<"~", c>>)
    /\ ~HasSub(s, <<"'", "'">>)
    /\ ~HasSub(s, <<"'", "\"">>)
    /\ ~HasSub(s, <<"NUL">>)
    /\ ~HasSub(s, <<"SOH">>)

\* C1 as stated: Decode(Encode(s)) = s for every s without three or more
\* consecutive spaces.
C1_RoundTripNoTripleSpace ==
    (cpc = "decoded" /\ ~HasSub(text, <<" ", " ", " ">>)) => decoded = text

\* C1 as amended: Decode(Encode(s)) = s for every s that has no two
\* consecutive spaces, no space followed by an underscore, no tilde followed
\* by one of q p h a l g b s n, no apostrophe followed by an apostrophe or a
\* double quote, and no byte 0x00 or 0x01.
C1_RoundTripSafe ==
    (cpc = "decoded" /\ RoundTripSafe(text)) => decoded = text

C1_Witness ==
    /\ cpc = "decoded"
    /\ text = <<"_", " ", "\"">>
    /\ encoded = <<"_", "_", "_", "'", "'">>
    /\ decoded = text

\* The inputs without a tilde, an apostrophe, byte 0x00 or byte 0x01, and
\* without a space directly followed by a space or an underscore.
PlainInput(s) ==
    /\ \A i \in 1..Len(s) : s[i] \notin {"~", "'", "NUL", "SOH"}
    /\ \A i \in 1..(Len(s) - 1) :
          s[i] = " " => s[i + 1] \notin {" ", "_"}

\* C29: Decode(Encode(s)) = s for every s that holds no tilde, no apostrophe,
\* no byte 0x00 and no byte 0x01, and in which no space is directly followed
\* by a space or an underscore.
C29_RoundTripOfPlainInput ==
    (cpc = "decoded" /\ PlainInput(text))
        => (encoded = Encode(text) /\ decoded = text)

C29_Witness ==
    /\ cpc = "decoded"
    /\ PlainInput(text)
    /\ text = <<"_", " ", "?">>
    /\ encoded = <<"_", "_", "_", "~", "q">>
    /\ decoded = text

(***************************************************************************)
(* Properties of retryTransport.RoundTrip, checked under Spec.             *)
(***************************************************************************)
RetryableStatus(c) == c = 429 \/ (c >= 500 /\ c <= 504)

Returned == pc = "done"
ReturnedErr(msg) == Returned /\ Len(ret.err) > 0 /\ ret.err[1] = msg
AllClosed == \A i \in 1..Len(closed) : closed[i]

\* C2 as stated: at most maxRetries+1 calls of the base transport; when
\* every response had a retryable status and the context was never
\* cancelled, exactly maxRetries+1 calls, and the last response is returned
\* with a nil error.
C2_ExactlyMaxRetriesPlusOne ==
    /\ calls <= maxRetries + 1
    /\ (Returned /\ allRetryable /\ ~ctxDone) =>
          /\ calls = maxRetries + 1
          /\ ret = [resp |-> resp, err |-> <<>>]
          /\ resp.attempt = maxRetries
          /\ RetryableStatus(resp.status)

\* C2 as amended: at most maxRetries+1 calls of the base transport; when
\* every call was answered with a response of retryable status (none with a
\* transport error), no clone of the request body failed and the context
\* was never cancelled, exactly maxRetries+1 calls, and the last response is
\* returned with a nil error.
C2_ExactlyMaxRetriesPlusOneIfAnswered ==
    /\ calls <= maxRetries + 1
    /\ (Returned /\ allRetryable /\ ~ctxDone /\ err = NoErr
          /\ ~ReturnedErr("cloning request body")) =>
          /\ calls = maxRetries + 1
          /\ ret = [resp |-> resp, err |-> <<>>]
          /\ resp.attempt = maxRetries
          /\ RetryableStatus(resp.status)

C2_Witness ==
    /\ Returned
    /\ maxRetries = 3
    /\ calls = 4
    /\ allRetryable
    /\ ~ctxDone
    /\ ret = [resp |-> [attempt |-> 3, status |-> 500], err |-> <<>>]

\* C3: the retry decision taken for a response is "retry" exactly when its
\* status is 429 or lies in 500..504.
C3_ShouldRetryExact ==
    (pc # "check" /\ resp # NilResp) =>
        (retryable <=> (resp.status = 429 \/ resp.status \in 500..504))

C3_Witness ==
    /\ Returned
    /\ calls = 2
    /\ resp = [attempt |-> 1, status |-> 505]
    /\ retryable = FALSE
    /\ ret.resp = resp

\* C4: a step that leaves the check of a response with a non-retryable
\* status returns that response with a nil error and calls the base
\* transport no more; a first response with status 400 means one call.
C4_NonRetryableReturnsAtOnce ==
    /\ []((Returned /\ ret.resp.attempt = 0 /\ ret.resp.status = 400)
            => calls = 1)
    /\ [][(pc = "check" /\ err = NoErr /\ ~RetryableStatus(resp.status)
            /\ pc' # "check")
          => (pc' = "done" /\ ret' = [resp |-> resp, err |-> <<>>]
              /\ calls' = calls)]_vars
    /\ [][Returned => calls' = calls]_vars

C4_Witness ==
    /\ Returned
    /\ maxRetries = 3
    /\ calls = 1
    /\ ret = [resp |-> [attempt |-> 0, status |-> 400], err |-> <<>>]

\* C5: when the context becomes done while RoundTrip is blocked in a backoff
\* wait, the next step of RoundTrip returns a nil response and an error that
\* wraps the context's error, without another call of the base transport,
\* so fewer than maxRetries+1 calls were made.
C5_CancelInterruptsBackoff ==
    /\ [][(pc = "wait" /\ ctxDone)
          => (/\ pc' = "done"
              /\ ret' = [resp |-> NilResp, err |-> <<"retry wait", ctxErr>>]
              /\ ctxErr \in CtxErrs
              /\ calls' = calls)]_vars
    /\ []((Returned /\ cancelledAt = "wait")
            => (ReturnedErr("retry wait") /\ calls <= maxRetries))

C5_Witness ==
    /\ Returned
    /\ cancelledAt = "wait"
    /\ maxRetries = 3
    /\ calls = 2
    /\ ret = [resp |-> NilResp, err |-> <<"retry wait", "context canceled">>]

\* C6: a step that leaves the check of a transport error returns a nil
\* response and an error wrapping it, whatever the retry budget left, and
\* no call of the base transport follows an error.
C6_TransportErrorIsFatal ==
    /\ [][(pc = "check" /\ err # NoErr /\ pc' # "check")
          => (/\ pc' = "done"
              /\ ret' = [resp |-> NilResp, err |-> <<"round trip", err>>]
              /\ calls' = calls)]_vars
    /\ [][err # NoErr => calls' = calls]_vars

C6_Witness ==
    /\ Returned
    /\ maxRetries = 3
    /\ calls = 2
    /\ ret = [resp |-> NilResp, err |-> <<"round trip", TransportErr>>]

\* C7: for a request with a body and a clone factory, every call of the
\* base transport is handed the whole original payload, unread.
C7_BodyPreserved ==
    (req.hasBody /\ req.hasGetBody) =>
        \A i \in 1..Len(sent) : sent[i] = Payload

C7_Witness ==
    /\ req.hasBody /\ req.hasGetBody
    /\ Len(sent) = 3
    /\ sent[3] = Payload

\* C8 as stated: no retry is issued for a request with a body that was not
\* re-materialized (RoundTrip reports a body-clone error instead), and a
\* body-clone error is reported only when a retry is needed, that is after
\* at least one call of the base transport.
C8_CloneErrorExactlyOnRetry ==
    /\ (req.hasBody /\ ~req.hasGetBody) => calls <= 1
    /\ \A i \in 2..Len(sent) : (req.hasBody => sent[i] = Payload)
    /\ ReturnedErr("cloning request body") => calls >= 1

\* C9 as stated: every response body received is closed before the next
\* attempt begins and before RoundTrip returns, on every exit path.
C9_ClosedOnEveryExit ==
    /\ (pc \in {"clone", "send"}) => AllClosed
    /\ Returned => AllClosed

\* C9 as amended: every response body is closed before the next attempt
\* begins and before RoundTrip returns an error (cancellation, transport
\* error, body-clone error); when RoundTrip returns a response (success,
\* terminal failure, retries exhausted) that response is the last one
\* received and its body is left open, all earlier ones being closed.
C9_ClosedBeforeRetryOrError ==
    /\ \A i \in 1..(Len(closed) - 1) : closed[i]
    /\ (pc \in {"clone", "send", "wait"}) => AllClosed
    /\ (Returned /\ ret.resp = NilResp) => AllClosed
    /\ (Returned /\ ret.resp # NilResp) =>
          /\ ret.resp = resp
          /\ resp.attempt = Len(closed) - 1
          /\ ~closed[Len(closed)]

C9_Witness ==
    /\ ReturnedErr("retry wait")
    /\ closed = <<TRUE, TRUE>>
    /\ calls = 2

\* C10: the k-th wait (following attempt k-1) lasts baseDelay * 2^(k-1); a
\* wait follows only a retryable response of an attempt before the last, so
\* at most maxRetries waits occur, and exactly maxRetries when the retries
\* are exhausted.
C10_ExponentialBackoff ==
    /\ \A k \in 1..Len(waits) : waits[k] = baseDelay * (2 ^ (k - 1))
    /\ Len(waits) <= maxRetries
    /\ Len(waits) <= Len(closed)
    /\ (pc = "wait") =>
          /\ RetryableStatus(resp.status)
          /\ resp.attempt < maxRetries
          /\ Len(waits) = resp.attempt + 1
    /\ (Returned /\ ~(ret.resp = NilResp) /\ RetryableStatus(ret.resp.status))
          => (Len(waits) = maxRetries /\ calls = maxRetries + 1)

C10_Witness ==
    /\ Returned
    /\ maxRetries = 3
    /\ waits = <<500, 1000, 2000>>
    /\ ret = [resp |-> [attempt |-> 3, status |-> 503], err |-> <<>>]

Encoded == cpc \in {"encoded", "decoded"}

\* The character-wise map of C12.
EncodeChar(c) ==
    CASE c = "_" -> <<"_", "_">>
      [] c = "-" -> <<"-", "-">>
      [] c = " " -> <<"_">>
      [] c = "?" -> <<"~", "q">>
      [] c = "%" -> <<"~", "p">>
      [] c = "#" -> <<"~", "h">>
      [] c = "\"" -> <<"'", "'">>
      [] c = "/" -> <<"~", "s">>
      [] c = "BSL" -> <<"~", "b">>
      [] c = "LF" -> <<"~", "n">>
      [] c = "&" -> <<"~", "a">>
      [] c = "<" -> <<"~", "l">>
      [] c = ">" -> <<"~", "g">>
      [] OTHER -> <<c>>

RECURSIVE EncodeCharWise(_)
EncodeCharWise(s) ==
    IF s = <<>> THEN <<>> ELSE EncodeChar(Head(s)) \o EncodeCharWise(Tail(s))

\* C12: Encode(s) is the concatenation, in order, of the images of the
\* characters of s under the character-wise map.
C12_EncodeIsCharWise ==
    Encoded => encoded = EncodeCharWise(text)

C12_Witness ==
    /\ cpc = "encoded"
    /\ text = <<" ", "_", "?">>
    /\ encoded = <<"_", "_", "_", "~", "q">>

UnsafeChars == {" ", "?", "%", "#", "\"", "/", "BSL", "LF", "&", "<", ">"}

\* C13: the output of Encode holds none of space ? % # " / \ newline & < >.
C13_EncodeOutputIsSafe ==
    Encoded => \A i \in 1..Len(encoded) : encoded[i] \notin UnsafeChars

C13_Witness ==
    /\ cpc = "encoded"
    /\ text = <<" ", ">">>
    /\ encoded = <<"_", "~", "g">>

\* C14: an input with two or more consecutive spaces is not restored by
\* Decode(Encode(s)); 'a', two spaces, 'b' encodes to a__b, which decodes to
\* a_b.
C14_DoubleSpaceIsLossy ==
    /\ (cpc = "decoded" /\ HasSub(text, <<" ", " ">>)) => decoded # text
    /\ (Encoded /\ text = <<"a", " ", " ", "b">>)
          => encoded = <<"a", "_", "_", "b">>
    /\ (cpc = "decoded" /\ text = <<"a", " ", " ", "b">>)
          => decoded = <<"a", "_", "b">>

C14_Witness ==
    /\ cpc = "decoded"
    /\ text = <<"a", " ", " ", "b">>
    /\ encoded = <<"a", "_", "_", "b">>
    /\ decoded = <<"a", "_", "b">>

\* The length of the run of c that starts s.
RECURSIVE RunLen(_, _)
RunLen(s, c) ==
    IF s # <<>> /\ Head(s) = c THEN 1 + RunLen(Tail(s), c) ELSE 0

Rep(c, n) == [i \in 1..n |-> c]

\* The reading of C15: a run of n underscores gives n \div 2 underscores and,
\* for an odd n, one space; a run of n dashes gives n \div 2 dashes and, for
\* an odd n, one more dash; the placeholder bytes read as the characters they
\* stand for, every other character as itself.
RECURSIVE RunDecode(_)
RunDecode(s) ==
    IF s = <<>> THEN <<>>
    ELSE IF Head(s) \in {"_", "-"}
         THEN LET c == Head(s)
                  n == RunLen(s, c)
              IN  Rep(c, n \div 2)
                  \o (IF n % 2 = 1
                      THEN <<IF c = "_" THEN " " ELSE "-">>
                      ELSE <<>>)
                  \o RunDecode(SubSeq(s, n + 1, Len(s)))
         ELSE <<CASE Head(s) = "NUL" -> "_"
                  [] Head(s) = "SOH" -> "-"
                  [] OTHER -> Head(s)>> \o RunDecode(Tail(s))

\* C15: Decode reads the runs of underscores and of dashes that its step 1
\* leaves, each greedily from the left: "___" gives underscore, space and
\* "____" gives two underscores.
C15_DecodeReadsRunsGreedily ==
    /\ (cpc = "textdecoded") => decoded = RunDecode(DecodeStep1(text))
    /\ (cpc = "textdecoded" /\ text = <<"_", "_", "_">>)
          => decoded = <<"_", " ">>
    /\ (cpc = "textdecoded" /\ text = <<"_", "_", "_", "_">>)
          => decoded = <<"_", "_">>
    /\ (cpc = "textdecoded" /\ text = <<"-", "-", "-">>)
          => decoded = <<"-", "-">>

C15_Witness ==
    /\ cpc = "textdecoded"
    /\ text = <<"_", "_", "_">>
    /\ decoded = <<"_", " ">>

(***************************************************************************)
(* Properties of the replacement passes, checked under SpecOrder.          *)
(***************************************************************************)
\* The underscores and dashes of s in order, with every stretch of other
\* characters between them shown as one mark.
RECURSIVE Shape(_)
Shape(s) ==
    IF s = <<>> THEN <<>>
    ELSE IF Head(s) \in {"_", "-"} THEN <<Head(s)>> \o Shape(Tail(s))
    ELSE LET r == Shape(Tail(s))
         IN  IF r # <<>> /\ Head(r) = "other" THEN r ELSE <<"other">> \o r

\* C16: the ten reversals of Decode's step 1, made in any order, end in the
\* result the code's order gives, and no pass adds, removes, joins or splits
\* a run of underscores or dashes.
C16_Step1OrderIndependent ==
    fn = "Decode" =>
        /\ Shape(cur) = Shape(otext)
        /\ left = {} => cur = DecodeStep1(otext)

C16_Witness ==
    /\ fn = "Decode"
    /\ left = {}
    /\ otext = <<"~", "q", "_", "'", "'">>
    /\ cur = <<"?", "_", "\"">>

\* The character-wise map of C17.
NormalizeChar(c) ==
    CASE c = "U2019" -> <<"'">>
      [] c = "U201C" -> <<"\"">>
      [] c = "U201D" -> <<"\"">>
      [] c = "U2013" -> <<"-">>
      [] c = "U2014" -> <<"-", "-">>
      [] OTHER -> <<c>>

RECURSIVE NormalizeCharWise(_)
NormalizeCharWise(s) ==
    IF s = <<>> THEN <<>>
    ELSE NormalizeChar(Head(s)) \o NormalizeCharWise(Tail(s))

\* C17: the five replacements of NormalizeQuotes, made in any order, end in
\* NormalizeQuotes' result, which maps U+2019 to an apostrophe, U+201C and
\* U+201D to a double quote, U+2013 to one dash and U+2014 to two, keeps every
\* other character and holds none of the five code points.
C17_NormalizeQuotesMap ==
    (fn = "NormalizeQuotes" /\ left = {}) =>
        /\ cur = NormalizeQuotes(otext)
        /\ cur = NormalizeCharWise(otext)
        /\ \A i \in 1..Len(cur) :
              cur[i] \notin {"U2019", "U201C", "U201D", "U2013", "U2014"}

C17_Witness ==
    /\ fn = "NormalizeQuotes"
    /\ left = {}
    /\ otext = <<"U201C", "x", "U201D", " ", "U2014", " ", "x", "U2019", "x">>
    /\ cur = <<"\"", "x", "\"", " ", "-", "-", " ", "x", "'", "x">>

(***************************************************************************)
(* Properties of the logging decorator, checked under Spec.                *)
(***************************************************************************)
\* C18: the decorator returns the response the wrapped transport returned,
\* with a nil error; when the wrapped transport returned an error it returns
\* a nil response and an error whose chain holds the original chain.
C18_LoggingPassesOutcomeOn ==
    lpc = "done" =>
        /\ (ret.resp # NilResp /\ ret.err = <<>>)
              => lret = [resp |-> ret.resp, err |-> <<>>]
        /\ ret.err # <<>>
              => /\ lret.resp = NilResp
                 /\ Len(lret.err) > Len(ret.err)
                 /\ SubSeq(lret.err, Len(lret.err) - Len(ret.err) + 1,
                           Len(lret.err)) = ret.err

C18_Witness ==
    /\ lpc = "done"
    /\ calls = 2
    /\ ret = [resp |-> NilResp, err |-> <<"round trip", TransportErr>>]
    /\ lret = [resp |-> NilResp,
               err |-> <<"logging round trip", "round trip", TransportErr>>]

(***************************************************************************)
(* Properties of the response check, checked under SpecCheck.              *)
(***************************************************************************)
\* C19: statusMessage gives the five fixed texts for 404, 414, 415, 422 and
\* 429 and 'unexpected error (HTTP c)' for every other code c;
\* checkImageResponse returns nil exactly when 200 <= status < 300 and
\* otherwise an Error with the status and that message.
C19_StatusMessages ==
    kpc = "done" =>
        /\ chkErr = NilError <=> (200 <= status /\ status < 300)
        /\ chkErr # NilError =>
              /\ chkErr.StatusCode = status
              /\ chkErr.Message =
                    CASE status = 404 -> "template not found"
                      [] status = 414
                            -> "text too long (max 200 chars per line)"
                      [] status = 415 -> "could not download image URL"
                      [] status = 422
                            -> "invalid style or missing image URL"
                      [] status = 429 -> "rate limited, try again later"
                      [] OTHER -> "unexpected error (HTTP "
                                  \o ToString(status) \o ")"
        /\ (status = 500) => chkErr.Message = "unexpected error (HTTP 500)"

C19_Witness ==
    /\ kpc = "done"
    /\ status = 414
    /\ chkErr = [StatusCode |-> 414,
                 Message |-> "text too long (max 200 chars per line)"]

\* C26: checkJSONResponse returns nil exactly for a status in 200..299; for
\* any other status it returns an Error with that status whose message is
\* the "error" string of the body when the body decodes as JSON and that
\* string is not empty, and statusMessage of the status otherwise.
HasErrorText(b) ==
    /\ b.kind = "object"
    /\ b.field = "string"
    /\ b.value # ""

C26_JSONErrorOrStatusMessage ==
    kpc = "jsondone" =>
        /\ chkErr = NilError <=> (200 <= status /\ status < 300)
        /\ chkErr # NilError =>
              /\ chkErr.StatusCode = status
              /\ HasErrorText(respBody) => chkErr.Message = respBody.value
              /\ ~HasErrorText(respBody)
                    => chkErr.Message = statusMessage(status)

C26_Witness ==
    /\ kpc = "jsondone"
    /\ status = 422
    /\ respBody = Body("object", "string", "")
    /\ chkErr = [StatusCode |-> 422,
                 Message |-> "invalid style or missing image URL"]

(***************************************************************************)
(* Properties of Config, checked under SpecConfig.                         *)
(***************************************************************************)
\* The Get whose result is in got came directly after the operation in last.
GetFollows(o) ==
    /\ got # NoGet
    /\ got.first
    /\ last.op = o
    /\ ~last.failed
    /\ got.key = last.key

\* C20: a Get that directly follows an accepted Set of the same known key
\* returns the value set with ok = TRUE, and a Get that directly follows an
\* Unset of the key returns ok = FALSE.
C20_GetReturnsWhatSetStored ==
    /\ GetFollows("Set") => (got.ok /\ got.value = last.value)
    /\ GetFollows("Unset") => ~got.ok

\* The value is one the validator of C21 rejects for the key.
Rejected(key, value) ==
    \/ key = "default_format" /\ value \notin {"jpg", "png", "gif", "webp"}
    \/ key = "default_layout" /\ value \notin {"default", "top"}
    \/ key \in {"safe", "auto_copy", "auto_open", "preview"}
          /\ value \notin {"true", "false"}
    \/ key = "cache_ttl" /\ value \notin {"1h", "0"}

\* The step is a Set or an Unset.
Mutation == nops' = nops + 1 /\ got' = NoGet

\* C21: a Set with an unknown key or with a value its key's validator
\* rejects, and an Unset with an unknown key, return an error and leave every
\* field of the Config as it was.
C21_RejectedSetChangesNothing ==
    [][ /\ (Mutation /\ last'.op = "Set"
              /\ (last'.key \notin knownKeys
                     \/ Rejected(last'.key, last'.value)))
            => (last'.failed /\ conf' = conf)
        /\ (Mutation /\ last'.op = "Unset" /\ last'.key \notin knownKeys)
            => (last'.failed /\ conf' = conf)
        /\ (Mutation /\ last'.failed) => conf' = conf ]_vars

C21_Witness ==
    /\ last = [op |-> "Set", key |-> "default_format", value |-> "top",
               failed |-> TRUE]
    /\ nops = 2
    /\ conf.default_format = "png"
    /\ conf.safe = <<FALSE>>

(***************************************************************************)
(* Properties of loadTemplates, checked under SpecTemplates.               *)
(***************************************************************************)
TplDone == tpc = "done"
CalledAPI == Len(apiCalls) >= 1
WroteCache == Len(saves) >= 1

\* The cache file at the call was written no longer ago than the TTL.
FreshCache == file0.kind = "valid" /\ file0.age <= ttl

\* The cache file at the call was missing, corrupt or older than the TTL.
MissingCorruptOrOld ==
    \/ file0.kind \in {"missing", "corrupt"}
    \/ file0.kind = "valid" /\ file0.age > ttl

\* C22 as stated: the API is called exactly when --refresh is set, a filter
\* is given, or the cache is missing, corrupt or older than the TTL; with a
\* fresh cache and neither flag no request is made and the cached list is
\* returned; the cache is written exactly when the API was called with an
\* empty filter.
C22_CacheDecidesApiCall ==
    TplDone =>
        /\ CalledAPI <=> (refresh \/ filter # "" \/ MissingCorruptOrOld)
        /\ (FreshCache /\ ~refresh /\ filter = "")
              => (~CalledAPI /\ tret = [templates |-> file0.templates,
                                        err |-> <<>>])
        /\ WroteCache <=> (CalledAPI /\ filter = "")

\* loadCache gives no list: no cache path, or a file that is missing,
\* unreadable, corrupt, older than the TTL or without a template list.
NoCachedList ==
    \/ cachePathErr
    \/ file0.kind \in {"missing", "unreadable", "corrupt"}
    \/ file0.kind = "valid" /\ (file0.age > ttl \/ file0.templates.nil)

\* C22, amended: without an API client nothing is called or written; with one,
\* the API is called exactly when --refresh is set, a filter is given or
\* loadCache gives no list, and otherwise the cached list is returned; the
\* cache write is attempted exactly when the call with an empty filter
\* succeeded and the cache path is known, and a filtered request leaves the
\* cache file as it was.
C22_CacheDecidesApiCallWithClient ==
    TplDone =>
        /\ ~client => (~CalledAPI /\ ~WroteCache /\ tret.err # <<>>)
        /\ client
              => (CalledAPI <=> (refresh \/ filter # "" \/ NoCachedList))
        /\ (client /\ ~CalledAPI)
              => tret = [templates |-> file0.templates, err |-> <<>>]
        /\ Len(apiCalls) <= 1
        /\ WroteCache
              <=> (CalledAPI /\ tret.err = <<>> /\ filter = ""
                      /\ ~cachePathErr)
        /\ WroteCache
              => /\ Len(saves) = 1
                 /\ saves[1].list = tret.templates
                 /\ cacheFile = IF saves[1].ok
                                THEN [kind |-> "valid",
                                      templates |-> tret.templates, age |-> 0]
                                ELSE file0
        /\ filter # "" => (saves = <<>> /\ cacheFile = file0)

C22_Witness ==
    /\ TplDone
    /\ client /\ ~refresh /\ filter = ""
    /\ file0.kind = "valid" /\ file0.age = 25 /\ ttl = 24
    /\ apiCalls = <<"">>
    /\ saves = <<[list |-> List(<<"drake", "fry">>), ok |-> TRUE]>>
    /\ cacheFile = [kind |-> "valid", templates |-> List(<<"drake", "fry">>),
                    age |-> 0]

(***************************************************************************)
(* Properties of the picker, checked under SpecPicker.                     *)
(***************************************************************************)
\* The step handles Ctrl+C, or Esc while the list is not filtering, in
\* StatePicking.
CancelKeyInPicking ==
    /\ model.state = "StatePicking"
    /\ \/ lastMsg' = "ctrl+c"
       \/ lastMsg' = "esc" /\ model.filterState # "Filtering"

\* C23 as stated: Ctrl+C, or Esc while the list is not filtering, handled in
\* StatePicking gives a model in StateDone with Cancelled() true and
\* Selected() nil.
C23_CancelInPickingClearsSelected ==
    [][ CancelKeyInPicking
          => /\ model'.state = "StateDone"
             /\ model'.cancelled
             /\ model'.selected = NilTemplate ]_vars

\* C23, amended: such a key gives a model in StateDone with Cancelled() true
\* and Selected() as it was; Selected() changes only when Enter in
\* StatePicking takes a template, and StateInputting is left for
\* StatePicking only by Esc, so Selected() is nil unless a template was taken
\* and Esc came back from the inputs.
C23_CancelInPickingKeepsSelected ==
    [][ /\ CancelKeyInPicking
          => /\ model'.state = "StateDone"
             /\ model'.cancelled
             /\ model'.selected = model.selected
        /\ model'.selected # model.selected
          => /\ model.state = "StatePicking"
             /\ lastMsg' = "enter"
             /\ model'.state \in {"StateInputting", "StateDone"}
             /\ model'.selected # NilTemplate
        /\ (model.state = "StateInputting" /\ model'.state = "StatePicking")
          => lastMsg' = "esc" ]_vars

C23_Witness ==
    /\ model.state = "StateDone"
    /\ model.cancelled
    /\ lastMsg = "ctrl+c"
    /\ model.inputs = <<>>
    /\ model.selected = [ID |-> 3, Lines |-> 2]

\* C27: in StateInputting 0 <= focusIdx < len(inputs) and len(inputs) is the
\* selected template's Lines; Tab on the last input and Shift+Tab on the
\* first leave focusIdx as it is; Enter moves the focus on by one, except on
\* the last input, where the texts are collected and the state is StateDone.
C27_FocusStaysInRange ==
    /\ [](model.state = "StateInputting"
            => /\ 0 <= model.focusIdx
               /\ model.focusIdx < Len(model.inputs)
               /\ Len(model.inputs) = model.selected.Lines)
    /\ [][ model.state = "StateInputting"
             => /\ (lastMsg' = "tab"
                      /\ model.focusIdx = Len(model.inputs) - 1)
                   => model' = model
                /\ (lastMsg' = "shift+tab" /\ model.focusIdx = 0)
                   => model' = model
                /\ (lastMsg' = "enter"
                      /\ model.focusIdx < Len(model.inputs) - 1)
                   => /\ model'.focusIdx = model.focusIdx + 1
                      /\ model'.state = "StateInputting"
                      /\ model'.texts = NilTexts
                /\ (lastMsg' = "enter"
                      /\ model.focusIdx = Len(model.inputs) - 1)
                   => /\ model'.state = "StateDone"
                      /\ model'.focusIdx = model.focusIdx
                      /\ model'.texts
                            = [nil |-> FALSE,
                               items |-> [i \in 1..Len(model.inputs) |->
                                            model.inputs[i].value]] ]_vars

C27_Witness ==
    /\ model.state = "StateInputting"
    /\ lastMsg = "tab"
    /\ model.focusIdx = 1
    /\ Len(model.inputs) = 2
    /\ model.inputs[1].value = <<"a">>
    /\ model.inputs[2].focus

\* C28: a model in StateDone that is not cancelled has a selected template
\* and as many texts as that template has lines; a model not in StateDone has
\* nil texts.
C28_TextsOnlyWhenDone ==
    /\ (model.state = "StateDone" /\ ~model.cancelled)
          => /\ model.selected # NilTemplate
             /\ ~model.texts.nil
             /\ Len(model.texts.items) = model.selected.Lines
    /\ model.state # "StateDone" => model.texts = NilTexts

C28_Witness ==
    /\ model.state = "StateDone"
    /\ ~model.cancelled
    /\ model.selected = [ID |-> 3, Lines |-> 2]
    /\ model.texts = [nil |-> FALSE, items |-> <<<<"a">>, <<"/">>>>]

(***************************************************************************)
(* Further properties of the two transports, checked under Spec.           *)
(***************************************************************************)
\* C24: attempts are sequential and separated by a close.  A step that sends
\* an attempt starts where every earlier attempt was answered, judged
\* retryable and had its body closed; a body is closed only in the backoff
\* that follows the check of its status, never in the step that sends; and
\* when the cancellation error is returned every body is closed.
Sends == calls' = calls + 1

Closes == closed' # closed /\ Len(closed') = Len(closed)

C24_SequentialAndSeparatedByClose ==
    /\ [](ReturnedErr("retry wait") => (AllClosed /\ Len(closed) = calls))
    /\ [][ /\ Sends => /\ pc = "send"
                       /\ calls = attempt
                       /\ Len(closed) = calls
                       /\ AllClosed
                       /\ calls > 0 => /\ resp.attempt = calls - 1
                                       /\ retryable
                       /\ ~Closes
           /\ Closes => /\ pc = "backoff"
                        /\ retryable
                        /\ resp.attempt = Len(closed) - 1
                        /\ closed' = [closed EXCEPT ![Len(closed)] = TRUE]
                        /\ calls' = calls ]_vars

C24_Witness ==
    /\ pc = "send"
    /\ attempt = 2
    /\ calls = 2
    /\ closed = <<TRUE, TRUE>>
    /\ resp.attempt = 1

\* C25: with Verbose the logging layer records one "http request" before the
\* retry layer is entered and one "http response" or "http error" after it
\* has returned, whatever the number of attempts; without Verbose there is
\* no logging layer and nothing is recorded.
C25_OneRequestOneOutcomeLogged ==
    /\ ~verbose => (logs = <<>> /\ lpc = "off")
    /\ (verbose /\ lpc = "request") => (logs = <<>> /\ calls = 0 /\ pc = "loop")
    /\ (verbose /\ lpc = "base")
          => (Len(logs) = 1 /\ logs[1].msg = "http request")
    /\ lpc = "done"
          => /\ verbose
             /\ pc = "done"
             /\ Len(logs) = 2
             /\ logs[1].msg = "http request"
             /\ logs[2].msg = (IF ret.err # <<>> THEN "http error"
                                                 ELSE "http response")

C25_Witness ==
    /\ lpc = "done"
    /\ calls = 4
    /\ Len(logs) = 2
    /\ logs[2].msg = "http response"
    /\ logs[2].status = 503

\* C30: RoundTrip returns a response or an error and never both or neither;
\* a returned response is the one of the last attempt made, and the
\* transport has not closed its body.
C30_ExactlyOneOfResponseAndError ==
    (Returned /\ maxRetries >= 0) =>
        /\ (ret.resp = NilResp) # (ret.err = <<>>)
        /\ ret.resp # NilResp =>
              /\ ret.resp.attempt = calls - 1
              /\ Len(sent) = calls
              /\ Len(closed) = calls
              /\ \A i \in 1..Len(closed) : closed[i] <=> i < calls

C30_Witness ==
    /\ Returned
    /\ maxRetries = 0
    /\ calls = 1
    /\ ret.resp # NilResp
    /\ ret.resp.status = 500
    /\ ret.err = <<>>
    /\ closed = <<FALSE>>

====
